---- MODULE Spec2Model ----
(***************************************************************************)
(* ZeekQuota.py: per-host usage accrual from Zeek flow logs.               *)
(*                                                                         *)
(* One run of monitor_zeek_logs() is reset_monthly_usage(), load_usage(),  *)
(* parse_logs() (find_log_files, extract_gzip_files_in_parallel, then      *)
(* parse_zeek_log per file) and save_usage().  The durable state is the    *)
(* CSV ledger data_usage.csv and the log files of the working directory.   *)
(***************************************************************************)
EXTENDS Integers, Sequences, FiniteSets, TLC

(***************************************************************************)
(* Bounds of the model.                                                    *)
(***************************************************************************)
\* Runs of the script that may be started in one behaviour.
MaxRuns == 2
\* Times the wall clock may be advanced in one behaviour.
MaxTicks == 1

(***************************************************************************)
(* Byte totals.                                                            *)
(*                                                                         *)
(* usage[ip][0] is an int or a Python float.  save_usage divides it by     *)
(* 1024 ** 3, so the values that occur are sums of small integers times    *)
(* powers of 2^-30.  A total is the function q with value                  *)
(*     q[0] + q[1] * 2^-30 + q[2] * 2^-60 + ...                            *)
(* with every coefficient below 128 (the logs of the model carry a few     *)
(* bytes).  Division by 2^30 is exact in binary floating point: it shifts  *)
(* the coefficients.  A float keeps 53 significant bits, so a sum keeps    *)
(* the leading non-zero coefficient and the one after it, and what lies    *)
(* 2^-60 or more below the leading one is under half an ulp and rounds     *)
(* away.                                                                   *)
(***************************************************************************)
\* Levels of 2^-30 a total can descend: one per save_usage, of which one may
\* precede the behaviour.
Depth == MaxRuns + 1

Levels == 0..Depth

Total == [Levels -> Nat]

\* int or float 0
Zero == [k \in Levels |-> 0]

\* an int byte count as a total
FromInt(n) == [k \in Levels |-> IF k = 0 THEN n ELSE 0]

\* index of the leading non-zero coefficient (Depth + 1 for zero)
Lead(q) == IF \E k \in Levels : q[k] # 0
             THEN CHOOSE k \in Levels : q[k] # 0 /\ \A j \in Levels : j < k => q[j] = 0
             ELSE Depth + 1

\* rounding of an exact sum to a double
Round(q) == LET lead == Lead(q)
            IN  [k \in Levels |-> IF k <= lead + 1 THEN q[k] ELSE 0]

\* Python's a + b on the totals
Add(a, b) == Round([k \in Levels |-> a[k] + b[k]])

\* data[0] / (1024 ** 3)
ToGiB(q) == [k \in Levels |-> IF k = 0 THEN 0 ELSE q[k - 1]]

\* the inverse conversion, gibibytes to bytes: q * (1024 ** 3)
GiBToBytes(q) == [k \in Levels |-> IF k = Depth THEN 0 ELSE q[k + 1]]

\* a <= b as numbers: the coefficients are below 2^30, so the order is lexicographic
Leq(a, b) == \/ a = b
             \/ \E k \in Levels : /\ a[k] < b[k]
                                  /\ \A j \in Levels : j < k => a[j] = b[j]

(***************************************************************************)
(* Addresses.  The text of an address field is modelled by what            *)
(* ipaddress.ip_address makes of it: kind "v4" with its dotted parts,      *)
(* kind "v6" (a well-formed IPv6 text), kind "text" (any other string) or  *)
(* kind "none" (the field is absent: record.get returns None).             *)
(***************************************************************************)
V4(a, b, c, d) == [kind |-> "v4", parts |-> <<a, b, c, d>>]

NoneAddr == [kind |-> "none", parts |-> <<>>]

\* ipaddress.ip_address(ip) does not raise ValueError
ParsesAsAddress(ip) ==
    \/ ip.kind = "v6"
    \/ /\ ip.kind = "v4"
       /\ Len(ip.parts) = 4
       /\ \A i \in 1..4 : ip.parts[i] \in 0..255

Min(a, b) == IF a < b THEN a ELSE b

Max(a, b) == IF a > b THEN a ELSE b

Pow2(n) == IF n = 0 THEN 1 ELSE IF n = 1 THEN 2 ELSE IF n = 2 THEN 4
           ELSE IF n = 3 THEN 8 ELSE IF n = 4 THEN 16 ELSE IF n = 5 THEN 32
           ELSE IF n = 6 THEN 64 ELSE IF n = 7 THEN 128 ELSE 256

\* the three private IPv4 ranges
internal_networks == <<
    [base |-> <<10, 0, 0, 0>>, prefix |-> 8],
    [base |-> <<172, 16, 0, 0>>, prefix |-> 12],
    [base |-> <<192, 168, 0, 0>>, prefix |-> 16] >>

\* ip_obj in network, for a parsed address: an IPv6 address is in no IPv4 network
InNetwork(ip, net) ==
    /\ ip.kind = "v4"
    /\ \A i \in 1..4 :
          LET bits == Max(0, Min(8, net.prefix - 8 * (i - 1)))
          IN  ip.parts[i] \div Pow2(8 - bits) = net.base[i] \div Pow2(8 - bits)

is_internal(ip) ==
    IF ParsesAsAddress(ip)
      THEN \E n \in 1..Len(internal_networks) : InNetwork(ip, internal_networks[n])
      ELSE FALSE

is_valid_ip(ip) == ParsesAsAddress(ip)

(***************************************************************************)
(* Flow records.  A line of a log is JSON text of an object, whose fields   *)
(* record.get reads, JSON text of another value (a list, a number, null),  *)
(* or text json.loads rejects.                                             *)
(***************************************************************************)
NoFields == [k \in {} |-> 0]

\* record.get(key, default)
Get(record, key, default) == IF key \in DOMAIN record THEN record[key] ELSE default

Json(record) == [json |-> TRUE, object |-> TRUE, record |-> record]

Garbage == [json |-> FALSE, object |-> FALSE, record |-> [ts |-> ""]]

\* a line such as [1, 2]: json.loads returns a value that has no get()
NotAnObject == [json |-> TRUE, object |-> FALSE, record |-> NoFields]

HostA == V4(10, 1, 1, 1)
HostB == V4(192, 168, 0, 5)
HostC == V4(172, 31, 255, 9)
ExtA == V4(93, 184, 216, 34)
ExtB == V4(172, 32, 0, 1)
ExtV6 == [kind |-> "v6", parts |-> <<>>]
BadOctet == V4(10, 1, 1, 256)
BadText == [kind |-> "text", parts |-> <<>>]

(***************************************************************************)
(* The working directory.  A file name is prefix + rest + "." + ext; the   *)
(* names of the model are a plain log and three archives a Zeek sensor     *)
(* writes, the plain siblings extract_gzip writes beside the archives, and *)
(* one log the script does not recognise.                                  *)
(***************************************************************************)
Name(prefix, ext) == [prefix |-> prefix, ext |-> ext]

ConnLog == Name("conn", "log")
DnsGz == Name("dns", "log.gz")
DnsLog == Name("dns", "log")
HttpGz == Name("http", "log.gz")
HttpLog == Name("http", "log")
OtherLog == Name("weird", "log")
SslGz == Name("ssl", "log.gz")
SslLog == Name("ssl", "log")

\* the order in which os.walk lists the directory
DirOrder == <<ConnLog, DnsGz, DnsLog, HttpGz, HttpLog, OtherLog, SslGz, SslLog>>

Paths == {DirOrder[i] : i \in 1..Len(DirOrder)}

\* the files the sensor writes in the runs of Spec; the siblings appear only by
\* extraction
SensorFiles == {ConnLog, DnsGz, HttpGz}

\* the archives of the directory
Archives == {p \in Paths : p.ext = "log.gz"}

log_prefixes == {"conn", "dns", "http", "ssl"}

\* the lines of a plain log, or of an archive once decompressed
Content(path) ==
    IF path = ConnLog THEN
        << Json([id_orig_h |-> HostA, id_resp_h |-> ExtA, orig_bytes |-> 1,
                 resp_bytes |-> 2, ts |-> "t1"]),
           Garbage,
           Json([id_orig_h |-> ExtB, id_resp_h |-> HostA, resp_bytes |-> 1, ts |-> "t2"]),
           Json([id_orig_h |-> HostA, id_resp_h |-> HostB, orig_bytes |-> 4,
                 resp_bytes |-> 4, ts |-> "t3"]),
           Json([id_orig_h |-> ExtA, id_resp_h |-> ExtB, orig_bytes |-> 4,
                 resp_bytes |-> 4, ts |-> "t3"]) >>
    ELSE IF path \in {DnsGz, DnsLog} THEN
        << Json([id_orig_h |-> ExtV6, id_resp_h |-> HostB, ts |-> "t4"]),
           Json([id_orig_h |-> BadOctet, id_resp_h |-> HostA, orig_bytes |-> 5,
                 resp_bytes |-> 5, ts |-> "t5"]) >>
    ELSE IF path \in {HttpGz, HttpLog} THEN
        << Json([id_orig_h |-> HostC, id_resp_h |-> ExtA, orig_bytes |-> 2, ts |-> "t6"]),
           Json([id_resp_h |-> HostB, orig_bytes |-> 3, resp_bytes |-> 3, ts |-> "t7"]),
           Json([id_orig_h |-> HostB, id_resp_h |-> BadText, orig_bytes |-> 3,
                 resp_bytes |-> 3, ts |-> "t7"]) >>
    ELSE IF path \in {SslGz, SslLog} THEN
        << Json([id_orig_h |-> HostB, id_resp_h |-> ExtA, orig_bytes |-> 1, ts |-> "t9"]),
           Json([id_orig_h |-> ExtB, id_resp_h |-> HostC, resp_bytes |-> 2, ts |-> "t9"]) >>
    ELSE
        << Json([id_orig_h |-> HostB, id_resp_h |-> ExtA, orig_bytes |-> 6,
                 resp_bytes |-> 6, ts |-> "t8"]) >>

\* a file of the directory: absent, or present with its first `lines` lines
Absent == [present |-> FALSE, lines |-> 0, corrupt |-> FALSE]

Whole(path) == [present |-> TRUE, lines |-> Len(Content(path)), corrupt |-> FALSE]

Cut(n) == [present |-> TRUE, lines |-> n, corrupt |-> FALSE]

\* an archive whose stream gzip rejects after `n` decompressed lines
CorruptAt(n) == [present |-> TRUE, lines |-> n, corrupt |-> TRUE]

(***************************************************************************)
(* The ledger in memory: a Python dict ip -> [total, last_time], which     *)
(* keeps its keys in insertion order; here the sequence of its items.      *)
(***************************************************************************)
Keys(u) == {u[i].ip : i \in 1..Len(u)}

Index(u, ip) == CHOOSE i \in 1..Len(u) : u[i].ip = ip

Entry(ip, total, last) == [ip |-> ip, total |-> total, last |-> last]

\* update_usage with "=" for "+=": the total is overwritten
update_usage_Overwrite(u, ip, data_amount, timestamp) ==
    IF ip \in Keys(u)
      THEN [u EXCEPT ![Index(u, ip)] = Entry(ip, FromInt(data_amount), timestamp)]
      ELSE Append(u, Entry(ip, FromInt(data_amount), timestamp))

\* update_usage without its line 88: an existing entry keeps its timestamp
update_usage_StaleTimestamp(u, ip, data_amount, timestamp) ==
    IF ip \in Keys(u)
      THEN [u EXCEPT ![Index(u, ip)] =
               Entry(ip, Add(u[Index(u, ip)].total, FromInt(data_amount)),
                     u[Index(u, ip)].last)]
      ELSE Append(u, Entry(ip, FromInt(data_amount), timestamp))

update_usage(u, ip, data_amount, timestamp) ==
    IF ip \in Keys(u)
      THEN [u EXCEPT ![Index(u, ip)] =
               Entry(ip, Add(u[Index(u, ip)].total, FromInt(data_amount)), timestamp)]
      ELSE Append(u, Entry(ip, FromInt(data_amount), timestamp))

\* Calls without the is_valid_ip test of line 106
Calls_NoValidation(line) ==
    IF ~line.json \/ ~line.object THEN <<>>
    ELSE LET record == line.record
             orig_ip == Get(record, "id_orig_h", NoneAddr)
             resp_ip == Get(record, "id_resp_h", NoneAddr)
             data_amount == Get(record, "orig_bytes", 0) + Get(record, "resp_bytes", 0)
             timestamp == Get(record, "ts", "")
         IN  IF is_internal(orig_ip) /\ ~is_internal(resp_ip)
               THEN << [ip |-> orig_ip, data_amount |-> data_amount,
                        timestamp |-> timestamp] >>
             ELSE IF is_internal(resp_ip) /\ ~is_internal(orig_ip)
               THEN << [ip |-> resp_ip, data_amount |-> data_amount,
                        timestamp |-> timestamp] >>
             ELSE <<>>

\* the update_usage calls one line of a log leads to: none or one
Calls(line) ==
    IF ~line.json \/ ~line.object THEN <<>>
    ELSE LET record == line.record
             orig_ip == Get(record, "id_orig_h", NoneAddr)
             resp_ip == Get(record, "id_resp_h", NoneAddr)
             data_amount == Get(record, "orig_bytes", 0) + Get(record, "resp_bytes", 0)
             timestamp == Get(record, "ts", "")
         IN  IF is_valid_ip(orig_ip) /\ is_valid_ip(resp_ip)
               THEN IF is_internal(orig_ip) /\ ~is_internal(resp_ip)
                      THEN << [ip |-> orig_ip, data_amount |-> data_amount,
                               timestamp |-> timestamp] >>
                    ELSE IF is_internal(resp_ip) /\ ~is_internal(orig_ip)
                      THEN << [ip |-> resp_ip, data_amount |-> data_amount,
                               timestamp |-> timestamp] >>
                    ELSE <<>>
               ELSE <<>>

\* the dict after the given calls of update_usage
Apply(u, calls) ==
    IF calls = <<>> THEN u
    ELSE update_usage(u, calls[1].ip, calls[1].data_amount, calls[1].timestamp)

\* the body of parse_zeek_log's loop for one line
ParseLine(u, line) == Apply(u, Calls(line))

(***************************************************************************)
(* State.                                                                  *)
(***************************************************************************)
VARIABLES
    fs,               \* the working directory: file name -> file
    csv,              \* data_usage.csv: whether it exists, its rows, its mtime
    now,              \* the wall clock, in months since a January
    pc,               \* where monitor_zeek_logs stands
    usage,            \* the usage dict of the running script
    log_files,        \* parse_logs: the plain logs to parse
    gzip_files,       \* parse_logs: the archives to extract
    futures,          \* the state of each submitted extract_gzip task
    extracted_files,  \* extract_gzip_files_in_parallel: the paths collected
    collected,        \* futures whose result() the main thread has taken
    fileIdx,          \* parse_logs: index of the file being parsed
    lineIdx,          \* parse_zeek_log: index of the next line of that file
    runs,             \* runs started so far
    ticks,            \* clock advances so far
    \* history, read by the properties only
    csvAtStart,       \* data_usage.csv when the run started
    csvBeforeSave,    \* data_usage.csv when save_usage was entered
    toSave,           \* the dict save_usage was called with
    loaded,           \* the dict load_usage returned
    merged,           \* the update_usage calls of the run, in order
    lastLine,         \* the line parse_zeek_log read last
    didReset,         \* reset_monthly_usage removed the file in this run
    crashedAt,        \* the step at which the run was killed
    lastSaved,        \* the dict of the last save_usage that completed
    finished,         \* the extract_gzip tasks of the run that have ended, in that order
    periodHosts       \* hosts save_usage has written since the last removal of the file

vars == << fs, csv, now, pc, usage, log_files, gzip_files, futures, extracted_files,
           collected, fileIdx, lineIdx, runs, ticks, csvAtStart, csvBeforeSave, toSave,
           loaded, merged, lastLine, didReset, crashedAt, lastSaved, finished,
           periodHosts >>

memory == << usage, log_files, gzip_files, futures, extracted_files, collected,
             fileIdx, lineIdx >>

history == << csvAtStart, csvBeforeSave, toSave, loaded, merged, lastLine, didReset,
              crashedAt,
              lastSaved, finished, periodHosts >>

\* datetime.month of a time
Month(t) == (t % 12) + 1

\* ThreadPoolExecutor(): the number of worker threads of the pool
max_workers == 2

NoCsv == [exists |-> FALSE, rows |-> <<>>, mtime |-> 0]

\* the row save_usage writes for one item of the dict
Row(e) == [ip |-> e.ip, gb |-> ToGiB(e.total), last |-> e.last]

\* usage[ip] = [float(total_data), last_time] for one row
FromRow(r) == Entry(r.ip, r.gb, r.last)

\* the dict load_usage builds from the rows of the file
load_usage(file) ==
    IF file.exists THEN [i \in 1..Len(file.rows) |-> FromRow(file.rows[i])] ELSE <<>>

\* ShouldReset with "==" for "!=": the file of the current month is removed
ShouldReset_SameMonth(file, t) == file.exists /\ Month(file.mtime) = Month(t)

\* datetime.year of a time, counted from the year of time 0
Year(t) == t \div 12

\* ShouldReset comparing year and month: a file of the same month of another
\* year is removed too
ShouldReset_YearAndMonth(file, t) ==
    file.exists /\ (Month(file.mtime) # Month(t) \/ Year(file.mtime) # Year(t))

\* reset_monthly_usage: whether the file is removed
ShouldReset(file, t) == file.exists /\ Month(file.mtime) # Month(t)

\* reset_monthly_usage emptying the file, as open(csv_file, "w") would, instead
\* of removing it
RemoveIfStale_Truncate(file, t) ==
    IF ShouldReset(file, t) THEN [exists |-> TRUE, rows |-> <<>>, mtime |-> t] ELSE file

\* reset_monthly_usage: the file it leaves
RemoveIfStale(file, t) == IF ShouldReset(file, t) THEN NoCsv ELSE file

\* the dict a run has after parsing the given lines
RECURSIVE ParseAll(_, _)
ParseAll(u, lines) ==
    IF lines = <<>> THEN u ELSE ParseAll(ParseLine(u, Head(lines)), Tail(lines))

\* the file save_usage leaves when it completes at time t
Saved(u, t) == [exists |-> TRUE, rows |-> [i \in 1..Len(u) |-> Row(u[i])], mtime |-> t]

\* the name extract_gzip writes to
LogFilePath(path) ==
    LET base_ext == IF path.ext = "log.gz" THEN "log" ELSE path.ext
    IN  Name(path.prefix, base_ext)

\* find_log_files: the names of the directory with the given extension, in walk order
RECURSIVE Found(_, _, _)
Found(dir, ext, i) ==
    IF i > Len(DirOrder) THEN <<>>
    ELSE LET p == DirOrder[i]
         IN  (IF dir[p].present /\ p.prefix \in log_prefixes /\ p.ext = ext
                THEN <<p>> ELSE <<>>) \o Found(dir, ext, i + 1)

\* the lines a reader of the file gets
Lines(dir, path) == SubSeq(Content(path), 1, dir[path].lines)

Running == {"reset", "load", "find", "submit", "extract", "parse", "save"}

\* The directory is empty and no run has been made, or conn.log is there and
\* one run in the month of the clock has parsed it and saved.
Init ==
    /\ \E before \in BOOLEAN :
          LET first == IF before THEN ParseAll(<<>>, Content(ConnLog)) ELSE <<>>
          IN  /\ fs = [p \in Paths |-> IF p = OtherLog \/ (before /\ p = ConnLog)
                                         THEN Whole(p) ELSE Absent]
              /\ csv = IF before THEN Saved(first, 0) ELSE NoCsv
              /\ lastSaved = first
              /\ periodHosts = Keys(first)
    /\ now = 0
    /\ pc = "idle"
    /\ usage = <<>>
    /\ log_files = <<>>
    /\ gzip_files = <<>>
    /\ futures = <<>>
    /\ extracted_files = <<>>
    /\ collected = 0
    /\ fileIdx = 1
    /\ lineIdx = 1
    /\ runs = 0
    /\ ticks = 0
    /\ csvAtStart = NoCsv
    /\ csvBeforeSave = NoCsv
    /\ toSave = <<>>
    /\ loaded = <<>>
    /\ merged = <<>>
    /\ lastLine = Garbage
    /\ didReset = FALSE
    /\ crashedAt = "none"
    /\ finished = <<>>

(***************************************************************************)
(* The environment: the sensor writes a log, time passes, the process is   *)
(* killed.                                                                 *)
(***************************************************************************)
\* a plain log or a sound archive appears in the directory
AddFile(p) ==
    /\ p \in SensorFiles
    /\ ~fs[p].present
    /\ fs' = [fs EXCEPT ![p] = Whole(p)]
    /\ UNCHANGED << csv, now, pc, memory, runs, ticks, history >>

\* an archive appears whose stream is broken after its first line
AddCorruptArchive(p) ==
    /\ p \in SensorFiles
    /\ p.ext = "log.gz"
    /\ ~fs[p].present
    /\ fs' = [fs EXCEPT ![p] = CorruptAt(1)]
    /\ UNCHANGED << csv, now, pc, memory, runs, ticks, history >>

ClockSteps == {1, 12}

AdvanceClock(d) ==
    /\ ticks < MaxTicks
    /\ now' = now + d
    /\ ticks' = ticks + 1
    /\ UNCHANGED << fs, csv, pc, memory, runs, history >>

\* the process dies (a signal, an uncaught exception, power loss): what it held in
\* memory is gone, its worker threads with it
Crash ==
    /\ pc \in Running
    /\ pc' = "crashed"
    /\ crashedAt' = pc
    /\ finished' = <<>>
    /\ usage' = <<>>
    /\ log_files' = <<>>
    /\ gzip_files' = <<>>
    /\ futures' = <<>>
    /\ extracted_files' = <<>>
    /\ collected' = 0
    /\ fileIdx' = 1
    /\ lineIdx' = 1
    /\ loaded' = <<>>
    /\ merged' = <<>>
    /\ lastLine' = Garbage
    /\ UNCHANGED << fs, csv, now, runs, ticks, csvAtStart, csvBeforeSave, toSave,
                    didReset, lastSaved, periodHosts >>

(***************************************************************************)
(* monitor_zeek_logs                                                       *)
(***************************************************************************)
\* the script is started: a new process with nothing in memory
StartRun ==
    /\ pc \in {"idle", "done", "crashed"}
    /\ runs < MaxRuns
    /\ runs' = runs + 1
    /\ pc' = "reset"
    /\ usage' = <<>>
    /\ log_files' = <<>>
    /\ gzip_files' = <<>>
    /\ futures' = <<>>
    /\ extracted_files' = <<>>
    /\ collected' = 0
    /\ fileIdx' = 1
    /\ lineIdx' = 1
    /\ csvAtStart' = csv
    /\ csvBeforeSave' = csv
    /\ toSave' = <<>>
    /\ loaded' = <<>>
    /\ merged' = <<>>
    /\ lastLine' = Garbage
    /\ didReset' = FALSE
    /\ crashedAt' = "none"
    /\ finished' = <<>>
    /\ UNCHANGED << fs, csv, now, ticks, lastSaved, periodHosts >>

reset_monthly_usage ==
    /\ pc = "reset"
    /\ pc' = "load"
    /\ csv' = RemoveIfStale(csv, now)
    /\ didReset' = ShouldReset(csv, now)
    /\ periodHosts' = IF ShouldReset(csv, now) THEN {} ELSE periodHosts
    /\ UNCHANGED << fs, now, memory, runs, ticks, csvAtStart, csvBeforeSave, toSave, loaded,
                    merged, lastLine, crashedAt, lastSaved, finished >>

LoadUsage ==
    /\ pc = "load"
    /\ pc' = "find"
    /\ usage' = load_usage(csv)
    /\ loaded' = load_usage(csv)
    /\ UNCHANGED << fs, csv, now, log_files, gzip_files, futures, extracted_files,
                    collected, fileIdx, lineIdx, runs, ticks, csvAtStart,
                    csvBeforeSave, toSave, merged, lastLine, didReset, crashedAt, lastSaved,
                    periodHosts, finished >>

find_log_files ==
    /\ pc = "find"
    /\ pc' = "submit"
    /\ log_files' = Found(fs, "log", 1)
    /\ gzip_files' = Found(fs, "log.gz", 1)
    /\ UNCHANGED << fs, csv, now, usage, futures, extracted_files, collected, fileIdx,
                    lineIdx, runs, ticks, history >>

\* executor.submit(extract_gzip, file) for every archive found
Submit ==
    /\ pc = "submit"
    /\ pc' = "extract"
    /\ futures' = [i \in 1..Len(gzip_files) |-> "queued"]
    /\ UNCHANGED << fs, csv, now, usage, log_files, gzip_files, extracted_files,
                    collected, fileIdx, lineIdx, runs, ticks, history >>

NumRunning == Cardinality({i \in 1..Len(futures) : futures[i] = "running"})

\* TaskStart with a thread per archive instead of the pool
TaskStart_ThreadPerFile(i) ==
    /\ pc = "extract"
    /\ i \in 1..Len(futures)
    /\ futures[i] = "queued"
    /\ futures' = [futures EXCEPT ![i] = "running"]
    /\ fs' = [fs EXCEPT ![LogFilePath(gzip_files[i])] = Cut(0)]
    /\ UNCHANGED << csv, now, pc, usage, log_files, gzip_files, extracted_files,
                    collected, fileIdx, lineIdx, runs, ticks, history >>

\* a worker thread takes task i and enters extract_gzip: open(log_file_path, "wb")
\* creates the sibling, or empties the one that is there
TaskStart(i) ==
    /\ pc = "extract"
    /\ i \in 1..Len(futures)
    /\ futures[i] = "queued"
    /\ \A j \in 1..(i - 1) : futures[j] # "queued"
    /\ NumRunning < max_workers
    /\ futures' = [futures EXCEPT ![i] = "running"]
    /\ fs' = [fs EXCEPT ![LogFilePath(gzip_files[i])] = Cut(0)]
    /\ UNCHANGED << csv, now, pc, usage, log_files, gzip_files, extracted_files,
                    collected, fileIdx, lineIdx, runs, ticks, history >>

\* shutil.copyfileobj of task i ends: with the whole log written, or with the
\* exception gzip raises at the broken place of the stream
TaskEnd(i) ==
    /\ pc = "extract"
    /\ i \in 1..Len(futures)
    /\ futures[i] = "running"
    /\ LET archive == gzip_files[i]
       IN  IF fs[archive].corrupt
             THEN /\ futures' = [futures EXCEPT ![i] = "raised"]
                  /\ fs' = [fs EXCEPT ![LogFilePath(archive)] = Cut(fs[archive].lines)]
             ELSE /\ futures' = [futures EXCEPT ![i] = "returned"]
                  /\ fs' = [fs EXCEPT ![LogFilePath(archive)] = Whole(LogFilePath(archive))]
    /\ finished' = Append(finished, i)
    /\ UNCHANGED << csv, now, pc, usage, log_files, gzip_files, extracted_files,
                    collected, fileIdx, lineIdx, runs, ticks, csvAtStart, csvBeforeSave,
                    toSave, loaded, merged, lastLine, didReset, crashedAt, lastSaved,
                    periodHosts >>

\* Collect taking the results as the tasks complete (as_completed) instead of in
\* the order of future_to_file
Collect_AsCompleted ==
    /\ pc = "extract"
    /\ collected < Len(finished)
    /\ collected' = collected + 1
    /\ extracted_files' =
          IF futures[finished[collected + 1]] = "returned"
            THEN Append(extracted_files, LogFilePath(gzip_files[finished[collected + 1]]))
            ELSE extracted_files
    /\ UNCHANGED << fs, csv, now, pc, usage, log_files, gzip_files, futures, fileIdx,
                    lineIdx, runs, ticks, history >>

\* Collect without the try of line 151: the exception of a failed task leaves
\* extract_gzip_files_in_parallel and ends the process
Collect_NoCatch ==
    /\ pc = "extract"
    /\ collected < Len(futures)
    /\ futures[collected + 1] \in {"returned", "raised"}
    /\ IF futures[collected + 1] = "raised"
         THEN Crash
         ELSE /\ collected' = collected + 1
              /\ extracted_files' =
                    Append(extracted_files, LogFilePath(gzip_files[collected + 1]))
              /\ UNCHANGED << fs, csv, now, pc, usage, log_files, gzip_files, futures,
                              fileIdx, lineIdx, runs, ticks, history >>

\* the main thread's loop over future_to_file: future.result() of the next future
\* in submission order, once that task has ended
Collect ==
    /\ pc = "extract"
    /\ collected < Len(futures)
    /\ futures[collected + 1] \in {"returned", "raised"}
    /\ collected' = collected + 1
    /\ extracted_files' =
          IF futures[collected + 1] = "returned"
            THEN Append(extracted_files, LogFilePath(gzip_files[collected + 1]))
            ELSE extracted_files
    /\ UNCHANGED << fs, csv, now, pc, usage, log_files, gzip_files, futures, fileIdx,
                    lineIdx, runs, ticks, history >>

\* ExtendLogFiles without the wait for the futures: parse_logs goes on while
\* tasks are queued or running
ExtendLogFiles_NoBarrier ==
    /\ pc = "extract"
    /\ pc' = "parse"
    /\ log_files' = log_files \o extracted_files
    /\ UNCHANGED << fs, csv, now, usage, gzip_files, futures, extracted_files,
                    collected, fileIdx, lineIdx, runs, ticks, history >>

\* extract_gzip_files_in_parallel returns; log_files.extend(extracted_files)
ExtendLogFiles ==
    /\ pc = "extract"
    /\ collected = Len(futures)
    /\ pc' = "parse"
    /\ log_files' = log_files \o extracted_files
    /\ UNCHANGED << fs, csv, now, usage, gzip_files, futures, extracted_files,
                    collected, fileIdx, lineIdx, runs, ticks, history >>

\* Process with "break" for the "continue" of line 116: text that json.loads
\* rejects ends the reading of the file
Process_BreakOnError(line) ==
    /\ pc = "parse"
    /\ IF line.json /\ ~line.object
         THEN Crash
         ELSE /\ LET calls == Calls(line)
                 IN  /\ usage' = Apply(usage, calls)
                     /\ merged' = merged \o calls
              /\ lastLine' = line
              /\ lineIdx' = IF line.json THEN lineIdx + 1 ELSE lineIdx + 100
              /\ UNCHANGED << fs, csv, now, pc, log_files, gzip_files, futures,
                              extracted_files, collected, fileIdx, runs, ticks, csvAtStart,
                              csvBeforeSave, toSave, loaded, didReset, crashedAt, lastSaved,
                              periodHosts, finished >>

\* one turn of parse_zeek_log's loop, on the line it has read.  record.get on a
\* value that is not a dict raises AttributeError, which nothing catches: the
\* traceback is printed and the process ends, as when it is killed.
Process(line) ==
    /\ pc = "parse"
    /\ IF line.json /\ ~line.object
         THEN Crash
         ELSE /\ LET calls == Calls(line)
                 IN  /\ usage' = Apply(usage, calls)
                     /\ merged' = merged \o calls
              /\ lastLine' = line
              /\ lineIdx' = lineIdx + 1
              /\ UNCHANGED << fs, csv, now, pc, log_files, gzip_files, futures,
                              extracted_files, collected, fileIdx, runs, ticks, csvAtStart,
                              csvBeforeSave, toSave, loaded, didReset, crashedAt, lastSaved,
                              periodHosts, finished >>

\* parse_zeek_log reads the next line of the file it has open
ReadLine ==
    /\ fileIdx <= Len(log_files)
    /\ lineIdx <= Len(Lines(fs, log_files[fileIdx]))
    /\ Process(Lines(fs, log_files[fileIdx])[lineIdx])

\* the file is at its end: parse_logs goes to the next one
NextFile ==
    /\ pc = "parse"
    /\ fileIdx <= Len(log_files)
    /\ lineIdx > Len(Lines(fs, log_files[fileIdx]))
    /\ fileIdx' = fileIdx + 1
    /\ lineIdx' = 1
    /\ UNCHANGED << fs, csv, now, pc, usage, log_files, gzip_files, futures,
                    extracted_files, collected, runs, ticks, history >>

\* SaveOpen without its place after the loop of parse_logs: save_usage is
\* called while files are still to be parsed
SaveOpen_BeforeParsed ==
    /\ pc = "parse"
    /\ pc' = "save"
    /\ csvBeforeSave' = csv
    /\ toSave' = usage
    /\ csv' = [exists |-> TRUE, rows |-> <<>>, mtime |-> now]
    /\ UNCHANGED << fs, now, memory, runs, ticks, csvAtStart, loaded, merged, lastLine, didReset,
                    crashedAt, lastSaved, periodHosts, finished >>

\* save_usage: open(csv_file, mode="w") creates the file or empties it
SaveOpen ==
    /\ pc = "parse"
    /\ fileIdx > Len(log_files)
    /\ pc' = "save"
    /\ csvBeforeSave' = csv
    /\ toSave' = usage
    /\ csv' = [exists |-> TRUE, rows |-> <<>>, mtime |-> now]
    /\ UNCHANGED << fs, now, memory, runs, ticks, csvAtStart, loaded, merged, lastLine, didReset,
                    crashedAt, lastSaved, periodHosts, finished >>

\* save_usage: the row of the next item of the dict reaches the file
SaveRow ==
    /\ pc = "save"
    /\ Len(csv.rows) < Len(usage)
    /\ csv' = [exists |-> TRUE, rows |-> Append(csv.rows, Row(usage[Len(csv.rows) + 1])),
               mtime |-> now]
    /\ periodHosts' = periodHosts \cup {usage[Len(csv.rows) + 1].ip}
    /\ UNCHANGED << fs, now, pc, memory, runs, ticks, csvAtStart, csvBeforeSave, toSave,
                    loaded, merged, lastLine, didReset, crashedAt, lastSaved, finished >>

\* save_usage: the file is closed, and the script ends
SaveClose ==
    /\ pc = "save"
    /\ Len(csv.rows) = Len(usage)
    /\ pc' = "done"
    /\ csv' = [csv EXCEPT !.mtime = now]
    /\ lastSaved' = usage
    /\ UNCHANGED << fs, now, memory, runs, ticks, csvAtStart, csvBeforeSave, toSave, loaded,
                    merged, lastLine, didReset, crashedAt, periodHosts, finished >>

Next ==
    \/ \E p \in Paths : AddFile(p)
    \/ \E p \in Paths : AddCorruptArchive(p)
    \/ \E d \in ClockSteps : AdvanceClock(d)
    \/ Crash
    \/ StartRun
    \/ reset_monthly_usage
    \/ LoadUsage
    \/ find_log_files
    \/ Submit
    \/ \E i \in 1..Len(futures) : TaskStart(i)
    \/ \E i \in 1..Len(futures) : TaskEnd(i)
    \/ Collect
    \/ ExtendLogFiles
    \/ ReadLine
    \/ NextFile
    \/ SaveOpen
    \/ SaveRow
    \/ SaveClose

Spec == Init /\ [][Next]_vars

TypeOK ==
    /\ pc \in Running \cup {"idle", "done", "crashed"}
    /\ runs \in 0..MaxRuns
    /\ \A i \in 1..Len(usage) : usage[i].total \in Total

(***************************************************************************)
(* parse_zeek_log on arbitrary lines.  The script has loaded a ledger and  *)
(* reads a log whose lines are drawn from AnyLines: every pairing of the   *)
(* addresses below, with either byte count present or absent.              *)
(***************************************************************************)
\* Lines of the log read in one behaviour.
MaxLines == 2

Addresses == {HostA, HostC, ExtB, ExtV6, BadOctet, NoneAddr}

Field(key, present, value) == IF present THEN key :> value ELSE NoFields

\* the byte counts of a record, orig_bytes and resp_bytes: -1 for an absent field
ByteCounts == {<<-1, -1>>, <<2, -1>>, <<2, 1>>}

AnyLines ==
    { Json(Field("id_orig_h", o # NoneAddr, o) @@ Field("id_resp_h", r # NoneAddr, r)
           @@ Field("orig_bytes", b[1] >= 0, b[1]) @@ Field("resp_bytes", b[2] >= 0, b[2])
           @@ Field("ts", TRUE, t)) :
        o \in Addresses, r \in Addresses, b \in ByteCounts, t \in {"t1", "t2"} }
    \cup {Garbage}

\* ledgers load_usage returns: after one run saved, after two
AfterOneRun == load_usage(Saved(ParseAll(<<>>, Content(ConnLog)), 0))

AfterTwoRuns ==
    load_usage(Saved(ParseAll(AfterOneRun, Content(ConnLog) \o Content(HttpLog)), 0))

InitLines ==
    /\ fs = [p \in Paths |-> IF p = ConnLog THEN Whole(p) ELSE Absent]
    /\ usage \in {<<>>, AfterTwoRuns}
    /\ loaded = usage
    /\ csv = Saved(usage, 0)
    /\ lastSaved = usage
    /\ periodHosts = Keys(usage)
    /\ now = 0
    /\ pc = "parse"
    /\ log_files = <<ConnLog>>
    /\ gzip_files = <<>>
    /\ futures = <<>>
    /\ extracted_files = <<>>
    /\ collected = 0
    /\ fileIdx = 1
    /\ lineIdx = 1
    /\ runs = 1
    /\ ticks = 0
    /\ csvAtStart = csv
    /\ csvBeforeSave = csv
    /\ toSave = <<>>
    /\ merged = <<>>
    /\ lastLine = Garbage
    /\ didReset = FALSE
    /\ crashedAt = "none"
    /\ finished = <<>>

ReadAnyLine(line) ==
    /\ lineIdx <= MaxLines
    /\ Process(line)

NextLines == \E line \in AnyLines : ReadAnyLine(line)

LineSpec == InitLines /\ [][NextLines]_vars

(***************************************************************************)
(* parse_zeek_log on a log that also holds JSON text of values that are    *)
(* not objects.                                                            *)
(***************************************************************************)
OddLines == {NotAnObject}

NextOddLines == \E line \in AnyLines \cup OddLines : ReadAnyLine(line)

OddLineSpec == InitLines /\ [][NextOddLines]_vars

(***************************************************************************)
(* Runs on a directory that does not change but by the script itself.  The *)
(* directory holds conn.log and any of the three archives, each sound or   *)
(* broken; there is no ledger; the script is run to its end, and again.    *)
(***************************************************************************)
InitBatch ==
    /\ \E dir \in [Archives -> {Absent} \cup {Whole(a) : a \in Archives} \cup {CorruptAt(1)}] :
          /\ \A a \in Archives : dir[a].present /\ ~dir[a].corrupt => dir[a] = Whole(a)
          /\ fs = [p \in Paths |-> IF p \in Archives THEN dir[p]
                                   ELSE IF p \in {ConnLog, OtherLog} THEN Whole(p)
                                   ELSE Absent]
    /\ csv = NoCsv
    /\ lastSaved = <<>>
    /\ periodHosts = {}
    /\ now = 0
    /\ pc = "idle"
    /\ usage = <<>>
    /\ log_files = <<>>
    /\ gzip_files = <<>>
    /\ futures = <<>>
    /\ extracted_files = <<>>
    /\ collected = 0
    /\ fileIdx = 1
    /\ lineIdx = 1
    /\ runs = 0
    /\ ticks = 0
    /\ csvAtStart = NoCsv
    /\ csvBeforeSave = NoCsv
    /\ toSave = <<>>
    /\ loaded = <<>>
    /\ merged = <<>>
    /\ lastLine = Garbage
    /\ didReset = FALSE
    /\ crashedAt = "none"
    /\ finished = <<>>

\* the steps of a run that is under way
RunStep ==
    \/ reset_monthly_usage
    \/ LoadUsage
    \/ find_log_files
    \/ Submit
    \/ \E i \in 1..Len(futures) : TaskStart(i)
    \/ \E i \in 1..Len(futures) : TaskEnd(i)
    \/ Collect
    \/ ExtendLogFiles
    \/ ReadLine
    \/ NextFile
    \/ SaveOpen
    \/ SaveRow
    \/ SaveClose

NextBatch == StartRun \/ RunStep

\* The interpreter runs the main thread and the worker threads until they end:
\* a step of the run that stays possible is taken.
BatchSpec == InitBatch /\ [][NextBatch]_vars /\ WF_vars(RunStep)

\* the process is killed while parse_logs is in its loop over log_files
CrashWhileParsing == pc = "parse" /\ Crash

NextRerun == NextBatch \/ CrashWhileParsing

RerunSpec == InitBatch /\ [][NextRerun]_vars

(***************************************************************************)
(* One whole run as a function of what it starts from: the calls of        *)
(* monitor_zeek_logs one after the other, the archives extracted in the    *)
(* order of gzip_files.                                                    *)
(***************************************************************************)
\* extract_gzip_files_in_parallel: the paths of the archives that extract
Extracted(dir, gz) ==
    LET sound == SelectSeq(gz, LAMBDA g : ~dir[g].corrupt)
    IN  [i \in 1..Len(sound) |-> LogFilePath(sound[i])]

\* the directory once every archive of gz has been through extract_gzip
AfterExtraction(dir, gz) ==
    [p \in Paths |->
        IF \E i \in 1..Len(gz) : LogFilePath(gz[i]) = p
          THEN LET g == gz[CHOOSE i \in 1..Len(gz) : LogFilePath(gz[i]) = p]
               IN  IF dir[g].corrupt THEN Cut(dir[g].lines) ELSE Whole(p)
          ELSE dir[p]]

\* the lines parse_logs reads: those of each file of the list, in order
RECURSIVE LinesOfAll(_, _)
LinesOfAll(dir, files) ==
    IF files = <<>> THEN <<>> ELSE Lines(dir, Head(files)) \o LinesOfAll(dir, Tail(files))

\* the dict parse_logs leaves
parse_logs(u, dir) ==
    LET gz == Found(dir, "log.gz", 1)
        files == Found(dir, "log", 1) \o Extracted(dir, gz)
    IN  ParseAll(u, LinesOfAll(AfterExtraction(dir, gz), files))

\* data_usage.csv after monitor_zeek_logs at time t
monitor_zeek_logs(dir, file, t) ==
    Saved(parse_logs(load_usage(RemoveIfStale(file, t)), dir), t)

(***************************************************************************)
(* Properties of one line and of the merge (under LineSpec).               *)
(***************************************************************************)
TotalOf(u, ip) == IF ip \in Keys(u) THEN u[Index(u, ip)].total ELSE Zero

LastOf(u, ip) == u[Index(u, ip)].last

OrigOf(line) == Get(line.record, "id_orig_h", NoneAddr)

RespOf(line) == Get(line.record, "id_resp_h", NoneAddr)

BytesOf(line) == Get(line.record, "orig_bytes", 0) + Get(line.record, "resp_bytes", 0)

\* both endpoints are addresses and exactly one of them is internal
OneInternal(line) ==
    /\ line.json
    /\ is_valid_ip(OrigOf(line)) /\ is_valid_ip(RespOf(line))
    /\ is_internal(OrigOf(line)) # is_internal(RespOf(line))

InternalEnd(line) == IF is_internal(OrigOf(line)) THEN OrigOf(line) ELSE RespOf(line)

\* parse_zeek_log has read a line in this step: lastLine' is the line
Read == pc = "parse" /\ lineIdx' = lineIdx + 1

\* C1: a record with two valid endpoints of which exactly one is internal adds
\* orig_bytes + resp_bytes (0 for an absent count) once to the entry of the
\* internal endpoint, which is created if it is not there, sets that entry's
\* last_timestamp to the record's ts, and changes no other entry.
C1_AttributedOnce ==
    [][ (Read /\ OneInternal(lastLine')) =>
           LET h == InternalEnd(lastLine')
               before == Keys(usage)
               after == Keys(usage')
           IN  /\ after = before \cup {h}
               /\ Len(usage') = Cardinality(after)
               /\ TotalOf(usage', h) = Add(TotalOf(usage, h), FromInt(BytesOf(lastLine')))
               /\ LastOf(usage', h) = Get(lastLine'.record, "ts", "")
               /\ \A k \in before \ {h} :
                     /\ TotalOf(usage', k) = TotalOf(usage, k)
                     /\ LastOf(usage', k) = LastOf(usage, k) ]_vars

\* two records for one host have been merged into a loaded ledger that held the host
C1_Witness ==
    /\ pc = "parse"
    /\ Len(merged) = 2
    /\ merged[1].ip = merged[2].ip
    /\ merged[1].ip \in Keys(loaded)
    /\ merged[1].data_amount = 3 /\ merged[2].data_amount = 2
    /\ TotalOf(usage, merged[1].ip) = Add(TotalOf(loaded, merged[1].ip), FromInt(5))
    /\ LastOf(usage, merged[1].ip) = merged[2].timestamp

\* C2: a record with no or two internal endpoints, or with an endpoint that is
\* absent or not an address, leaves the ledger as it is.
C2_NotAttributed ==
    [][ (Read /\ lastLine'.json /\ ~OneInternal(lastLine')) => usage' = usage ]_vars

\* a record whose origin is not an address and whose responder is internal has
\* been read, after one with two internal endpoints, into a loaded ledger
C2_Witness ==
    /\ pc = "parse"
    /\ lineIdx = 3
    /\ lastLine.json
    /\ OrigOf(lastLine) = BadOctet /\ is_internal(RespOf(lastLine))
    /\ merged = <<>>
    /\ usage = loaded
    /\ usage # <<>>

RECURSIVE MergeAll(_, _)
MergeAll(u, calls) ==
    IF calls = <<>> THEN u
    ELSE MergeAll(update_usage(u, Head(calls).ip, Head(calls).data_amount,
                               Head(calls).timestamp), Tail(calls))

Perms(n) == {f \in [1..n -> 1..n] : \A i, j \in 1..n : f[i] = f[j] => i = j}

\* the calls for the host in a sequence of calls
For(calls, ip) == SelectSeq(calls, LAMBDA c : c.ip = ip)

\* C6: merging the attributed records in any order gives every host the same
\* total, and gives it the timestamp of the record of the host merged last.
C6_MergeOrder ==
    \A f \in Perms(Len(merged)) :
       LET order == [i \in 1..Len(merged) |-> merged[f[i]]]
           result == MergeAll(loaded, order)
       IN  /\ Keys(result) = Keys(usage)
           /\ \A h \in Keys(usage) : TotalOf(result, h) = TotalOf(usage, h)
           /\ \A h \in Keys(result) :
                 For(order, h) # <<>> =>
                    LastOf(result, h) = For(order, h)[Len(For(order, h))].timestamp

\* two records of one host with different byte counts, the one stamped t2 merged
\* before the one stamped t1: the entry carries t1
C6_Witness ==
    /\ pc = "parse"
    /\ Len(merged) = 2
    /\ merged[1].ip = merged[2].ip
    /\ merged[1].data_amount # merged[2].data_amount
    /\ merged[1].timestamp = "t2" /\ merged[2].timestamp = "t1"
    /\ LastOf(usage, merged[1].ip) = "t1"

(***************************************************************************)
(* Properties of the runs (under Spec).                                    *)
(***************************************************************************)
\* the script holds the ledger in memory
Holding == pc \in {"find", "submit", "extract", "parse", "save"}

HostsOf(calls) == {calls[i].ip : i \in 1..Len(calls)}

\* the bytes of the calls for the host, added as integers
RECURSIVE SumFor(_, _)
SumFor(calls, ip) ==
    IF calls = <<>> THEN 0
    ELSE (IF Head(calls).ip = ip THEN Head(calls).data_amount ELSE 0)
         + SumFor(Tail(calls), ip)

RECURSIVE CallsOf(_)
CallsOf(lines) == IF lines = <<>> THEN <<>> ELSE Calls(Head(lines)) \o CallsOf(Tail(lines))

\* C3: a ledger saved and loaded again within the month has the same hosts and,
\* for every host, the same total in bytes.
C3_RoundTrip ==
    (pc = "find" /\ csv.exists /\ csv.rows = Saved(lastSaved, 0).rows) =>
       /\ Keys(usage) = Keys(lastSaved)
       /\ \A h \in Keys(usage) : TotalOf(usage, h) = TotalOf(lastSaved, h)

\* the flow records of the files the sensor has written, each once
RECURSIVE CorpusCalls(_)
CorpusCalls(i) ==
    IF i > Len(DirOrder) THEN <<>>
    ELSE (IF DirOrder[i] \in SensorFiles /\ fs[DirOrder[i]].present
            THEN CallsOf(Content(DirOrder[i])) ELSE <<>>) \o CorpusCalls(i + 1)

InSeq(x, seq) == \E i \in 1..Len(seq) : seq[i] = x

\* C4: within one month, after a run on a directory whose archives are all
\* sound, the persisted total of every host is the sum, in gibibytes, of the
\* bytes of its records in the files of the directory, each record counted once.
C4_CountedOnce ==
    ( /\ pc = "done"
      /\ ticks = 0
      /\ \A p \in SensorFiles :
            fs[p].present => ~fs[p].corrupt /\ (InSeq(p, log_files) \/ InSeq(p, gzip_files)) ) =>
       \A i \in 1..Len(csv.rows) :
          csv.rows[i].gb = ToGiB(FromInt(SumFor(CorpusCalls(1), csv.rows[i].ip)))

\* C5: the rollover check removes the file exactly when it exists and the month
\* of its last modification is not the current month; load_usage returns the
\* rows of the file as they are, or an empty ledger when there is no file; and
\* the ledger saved by a run that removed the file holds the hosts attributed
\* in that run, with the totals of that run alone.
C5_Rollover ==
    [][ /\ (pc = "reset" /\ pc' = "load") =>
              IF csv.exists /\ Month(csv.mtime) # Month(now)
                THEN ~csv'.exists /\ didReset'
                ELSE csv' = csv /\ ~didReset'
        /\ (pc = "load" /\ pc' = "find") =>
              /\ Len(usage') = (IF csv.exists THEN Len(csv.rows) ELSE 0)
              /\ \A i \in 1..Len(usage') :
                    usage'[i] = Entry(csv.rows[i].ip, csv.rows[i].gb, csv.rows[i].last)
              /\ didReset => usage' = <<>>
        /\ (pc = "save" /\ pc' = "done" /\ didReset) =>
              /\ csv'.exists
              /\ {csv'.rows[i].ip : i \in 1..Len(csv'.rows)} = HostsOf(merged)
              /\ \A i \in 1..Len(csv'.rows) :
                    csv'.rows[i].gb = ToGiB(FromInt(SumFor(merged, csv'.rows[i].ip)))
      ]_vars

\* a run has removed a ledger with rows and saved one of its own
C5_Witness ==
    /\ pc = "done"
    /\ didReset
    /\ csvAtStart.rows # <<>>
    /\ csv.rows # <<>>
    /\ Month(csvAtStart.mtime) # Month(csv.mtime)

\* the total recorded for the host, in bytes: in memory while the script holds
\* the ledger, in the file otherwise
Recorded(p, u, file, h) ==
    IF p \in {"find", "submit", "extract", "parse", "save"}
      THEN TotalOf(u, h)
      ELSE IF \E i \in 1..Len(file.rows) : file.rows[i].ip = h
             THEN GiBToBytes(file.rows[CHOOSE i \in 1..Len(file.rows) : file.rows[i].ip = h].gb)
             ELSE Zero

RecordedHosts(p, u, file) ==
    IF p \in {"find", "submit", "extract", "parse", "save"}
      THEN Keys(u)
      ELSE {file.rows[i].ip : i \in 1..Len(file.rows)}

\* C7: but for the rollover, and as long as the run is not killed, no step
\* lowers the total recorded for a host.
C7_NeverDecreases ==
    [][ (pc' # "crashed" /\ ~(pc = "reset" /\ ShouldReset(csv, now))) =>
           \A h \in RecordedHosts(pc, usage, csv) :
              /\ h \in RecordedHosts(pc', usage', csv')
              /\ Leq(Recorded(pc, usage, csv, h), Recorded(pc', usage', csv', h)) ]_vars

\* C8: while the script holds the ledger, the hosts with an entry are the hosts
\* attributed in this run and those written by a save since the last rollover.
C8_EntryIffAttributed ==
    Holding => Keys(usage) = periodHosts \cup HostsOf(merged)

\* C9, as claimed: a run killed before save_usage leaves data_usage.csv as it
\* was when the run started.
C9_Untouched ==
    (pc = "crashed" /\ crashedAt # "save") => csv = csvAtStart

\* C9, amended: a run killed before save_usage leaves data_usage.csv as it was
\* when the run started, unless the rollover check of the run has removed it.
C9_UntouchedButRollover ==
    (pc = "crashed" /\ crashedAt # "save") =>
       IF didReset THEN csvAtStart.exists /\ ~csv.exists ELSE csv = csvAtStart

\* a run has removed a ledger with rows and was killed while parsing
C9_Witness ==
    /\ pc = "crashed"
    /\ crashedAt = "parse"
    /\ didReset
    /\ csvAtStart.rows # <<>>
    /\ ~csv.exists

\* C10: a run killed in save_usage leaves the whole previous ledger or the
\* whole new one.
C10_WholeLedger ==
    (pc = "crashed" /\ crashedAt = "save") =>
       \/ csv = csvBeforeSave
       \/ csv.exists /\ csv.rows = Saved(toSave, 0).rows

(***************************************************************************)
(* Properties of the runs on a fixed directory (under BatchSpec).          *)
(***************************************************************************)
\* the last n elements of a sequence
Last(seq, n) == SubSeq(seq, Len(seq) - n + 1, Len(seq))

\* what holds once extract_gzip_files_in_parallel has returned
StageReturned ==
    /\ extracted_files = Extracted(fs, gzip_files)
    /\ \A i \in 1..Len(gzip_files) :
          ~fs[gzip_files[i]].corrupt =>
             fs[LogFilePath(gzip_files[i])] = Whole(LogFilePath(gzip_files[i]))
    /\ Len(log_files) >= Len(extracted_files)
    /\ Last(log_files, Len(extracted_files)) = extracted_files

\* C11: whichever archives fail to decompress, every other archive is
\* decompressed, the stage returns the plain paths of the archives that
\* succeeded and of no other, in the order submitted; the run parses them, and
\* a run that has reached the decompression comes to its end with the calls of
\* every line of those files merged into the ledger it saves.
C11_PartialFailure ==
    /\ [](pc \in {"parse", "save", "done"} => StageReturned)
    /\ [](pc \in {"save", "done"} =>
            /\ merged = CallsOf(LinesOfAll(fs, log_files))
            /\ usage = MergeAll(loaded, merged))
    /\ [](pc = "done" => csv.rows = Saved(usage, now).rows)
    /\ ((pc = "extract") ~> (pc = "done"))

\* a run on three archives of which the first is broken has saved the hosts of
\* the other two
C11_Witness ==
    /\ pc = "done"
    /\ runs = 1
    /\ gzip_files = <<DnsGz, HttpGz, SslGz>>
    /\ fs[DnsGz].corrupt
    /\ extracted_files = <<HttpLog, SslLog>>
    /\ {csv.rows[i].ip : i \in 1..Len(csv.rows)} = {HostA, HostB, HostC}

\* the directory as it was before the first run: conn.log, the log the script
\* does not recognise, and the archives, which no run changes
FirstDir == [p \in Paths |-> IF p \in Archives \cup {ConnLog, OtherLog} THEN fs[p] ELSE Absent]

\* the tasks the pool has not finished
Unfinished == {i \in 1..Len(futures) : futures[i] \in {"queued", "running"}}

\* C17: never more than max_workers tasks run at once; the end of a task,
\* failed or not, changes no other task; when extract_gzip_files_in_parallel
\* has returned, every archive found has been submitted and every task has
\* ended, the sound ones with their result; and the stage does return.
C17_BoundedPoolBarrier ==
    /\ [](NumRunning <= max_workers)
    /\ [][ \A i \in 1..Len(futures) :
              (i <= Len(futures') /\ futures[i] = "running" /\ futures'[i] # "running") =>
                 /\ futures'[i] = (IF fs[gzip_files[i]].corrupt THEN "raised" ELSE "returned")
                 /\ \A j \in 1..Len(futures) : j # i => futures'[j] = futures[j] ]_vars
    /\ [](pc \in {"parse", "save", "done"} =>
            /\ Len(futures) = Len(gzip_files)
            /\ Unfinished = {}
            /\ Len(finished) = Len(futures)
            /\ \A i \in 1..Len(futures) :
                  futures[i] = "returned" <=> ~fs[gzip_files[i]].corrupt)
    /\ ((pc = "extract") ~> (pc = "parse"))

\* three archives were submitted to the pool of two: the first has failed, the
\* second is running, and the third, which had to wait, is running too
C17_Witness ==
    /\ pc = "extract"
    /\ Len(futures) = 3
    /\ max_workers < Len(futures)
    /\ futures = << "raised", "running", "running" >>
    /\ collected = 0

\* C18: while a task of the pool is queued or running nothing reads or changes
\* the ledger: usage changes only in load_usage, before any task is submitted,
\* and in the parse loop, after every task has ended; the steps of the tasks
\* leave it alone; and the ledger is read for parsing and saving only when no
\* task is left.
C18_LedgerNotShared ==
    /\ [][ usage' # usage =>
              /\ Unfinished = {}
              /\ pc \in {"load", "parse"} \/ pc' = "reset" ]_vars
    /\ [][ futures' # futures => usage' = usage \/ pc' = "reset" ]_vars
    /\ [](pc \in {"load", "parse", "save"} => Unfinished = {})

\* the parse loop has changed the ledger after a batch of three tasks, one of
\* which failed
C18_Witness ==
    /\ pc = "parse"
    /\ Len(futures) = 3
    /\ \E i \in 1..3 : futures[i] = "raised"
    /\ merged # <<>>
    /\ usage # loaded

\* the directory at the start of the run: as it was at first, and from the
\* second run on with the siblings the runs before have written
StartDir ==
    IF runs <= 1 THEN FirstDir
    ELSE AfterExtraction(FirstDir, Found(FirstDir, "log.gz", 1))

\* C20: in whatever order the tasks end, the files are parsed in the order
\* found, the plain logs and then the siblings of the sound archives in the
\* order of submission, and the ledger saved, rows, totals and timestamps, is
\* the one the directory and the ledger at the start of the run determine.
C20_OrderIndependent ==
    /\ pc \in {"parse", "save", "done"} =>
          log_files = Found(StartDir, "log", 1)
                        \o Extracted(StartDir, Found(StartDir, "log.gz", 1))
    /\ pc = "done" => csv.rows = monitor_zeek_logs(StartDir, csvAtStart, now).rows

\* three sound archives with records of the same hosts have been extracted, the
\* last submitted ending first and the first submitted ending last, and the
\* ledger saved carries the timestamps of the last submitted
C20_Witness ==
    /\ pc = "done"
    /\ runs = 1
    /\ extracted_files = <<DnsLog, HttpLog, SslLog>>
    /\ finished = <<2, 3, 1>>
    /\ LastOf(usage, HostB) = "t9"
    /\ LastOf(usage, HostC) = "t9"
    /\ csv.rows = Saved(usage, now).rows

(***************************************************************************)
(* More properties of the runs (under Spec).                               *)
(***************************************************************************)
\* the lines parse_logs has read so far: the files before the current one, and
\* the lines of the current one before lineIdx
LinesRead ==
    LinesOfAll(fs, SubSeq(log_files, 1, fileIdx - 1))
    \o (IF fileIdx <= Len(log_files)
          THEN SubSeq(Lines(fs, log_files[fileIdx]), 1,
                      Min(lineIdx - 1, Len(Lines(fs, log_files[fileIdx]))))
          ELSE <<>>)

\* C12: a line json.loads rejects changes nothing in the ledger, and the loop
\* goes on with the next line of the same file; at every point of the parse the
\* calls merged are those of all the lines read so far, before and after such
\* a line.
C12_SkipsBadLine ==
    /\ [][ (pc = "parse" /\ pc' = "parse" /\ fileIdx' = fileIdx /\ lineIdx' # lineIdx
              /\ ~lastLine'.json) =>
             /\ usage' = usage
             /\ lineIdx' = lineIdx + 1 ]_vars
    /\ [](pc = "parse" => merged = CallsOf(LinesRead))

\* conn.log has been read up to its third line: a record, a line that is not
\* JSON, a record; both records are in the ledger
C12_Witness ==
    /\ pc = "parse"
    /\ fileIdx <= Len(log_files)
    /\ log_files[fileIdx] = ConnLog
    /\ lineIdx = 4
    /\ Lines(fs, ConnLog)[2] = Garbage
    /\ Len(merged) = 2
    /\ merged[1].timestamp = "t1" /\ merged[2].timestamp = "t2"

\* C15: reset_monthly_usage removes the file exactly when it exists and the
\* month numbers of its last modification and of the clock differ, whatever
\* the years; a file last modified in the same month of an earlier year stays
\* and load_usage returns its entries.
C15_MonthNumberOnly ==
    [][ /\ (pc = "reset" /\ pc' = "load") =>
              /\ ~csv'.exists <=> (~csv.exists \/ (csv.mtime % 12) # (now % 12))
              /\ (csv.exists /\ (csv.mtime % 12) = (now % 12)) => csv' = csv
        /\ (pc = "load" /\ pc' = "find" /\ csvAtStart.exists
              /\ (csvAtStart.mtime % 12) = (now % 12)) =>
              /\ Len(usage') = Len(csvAtStart.rows)
              /\ \A i \in 1..Len(usage') :
                    /\ usage'[i].ip = csvAtStart.rows[i].ip
                    /\ usage'[i].total = csvAtStart.rows[i].gb
      ]_vars

\* a ledger with rows, last modified twelve months ago, has been loaded
C15_Witness ==
    /\ pc = "find"
    /\ csvAtStart.exists
    /\ Year(csvAtStart.mtime) # Year(now)
    /\ Month(csvAtStart.mtime) = Month(now)
    /\ csv = csvAtStart
    /\ usage # <<>>
    /\ Len(usage) = Len(csvAtStart.rows)

\* the steps of monitor_zeek_logs, in the order of its code
StepOrder == << "reset", "load", "find", "submit", "extract", "parse", "save", "done" >>

Rank(step) == CHOOSE i \in 1..Len(StepOrder) : StepOrder[i] = step

\* C16: a run goes through rollover check, load, discovery, decompression
\* (submission, then extraction), parsing and persistence in this order, one
\* step after the other and none twice, unless it is killed; save_usage is
\* entered only when every file found or extracted has been read to its end;
\* and the ledger file changes only in the rollover check and in save_usage.
C16_StepOrder ==
    [][ /\ pc' # pc =>
              \/ pc' = "crashed" /\ pc \in Running
              \/ pc' = "reset" /\ pc \in {"idle", "done", "crashed"} /\ runs' = runs + 1
              \/ /\ pc \in Running
                 /\ pc' \in Running \cup {"done"}
                 /\ Rank(pc') = Rank(pc) + 1
                 /\ runs' = runs
        /\ (pc = "parse" /\ pc' = "save") =>
              /\ fileIdx > Len(log_files)
              /\ Last(log_files, Len(extracted_files)) = extracted_files
              /\ merged = CallsOf(LinesOfAll(fs, log_files))
        /\ csv' # csv => pc \in {"reset", "save"} \/ pc' = "save"
        /\ usage' # usage => pc = "load" \/ pc = "parse" \/ pc' \in {"reset", "crashed"}
      ]_vars

\* a run that found a plain log and an archive has gone through all its steps
C16_Witness ==
    /\ pc = "done"
    /\ Len(log_files) >= 2
    /\ extracted_files # <<>>
    /\ merged = CallsOf(LinesOfAll(fs, log_files))
    /\ merged # <<>>
    /\ csv.rows = Saved(usage, now).rows

\* C19: the list of files parse_logs parses in a run holds no path twice.
C19_NoSourceTwice ==
    pc \in {"parse", "save", "done"} =>
       \A i, j \in 1..Len(log_files) : log_files[i] = log_files[j] => i = j

(***************************************************************************)
(* Property of the lines that are not flow records (under OddLineSpec,     *)
(* where nothing kills the process).                                       *)
(***************************************************************************)
\* C13: whatever line parse_zeek_log reads, the run is not halted: the script
\* is still in its loop over the lines, on its way to save_usage.
C13_NothingHalts == pc = "parse" /\ crashedAt = "none"

(***************************************************************************)
(* Property of the rerun after a kill (under RerunSpec).                   *)
(***************************************************************************)
\* C14: when the first run is killed in the loop of parse_logs, after the
\* extraction and before save_usage, the ledger the second run saves is the
\* ledger one whole run on the directory of the first would have saved.
C14_RerunIdempotent ==
    (pc = "done" /\ runs = 2 /\ ~csvAtStart.exists) =>
       csv.rows = monitor_zeek_logs(FirstDir, NoCsv, now).rows

====
